---- MODULE Spec2Model ----
(***************************************************************************)
(* Model of the conversation manager (lib/conversation-manager) and of the *)
(* request handlers that drive it.  Strings are TLA+ strings, processed    *)
(* character by character the way the JavaScript string methods do.  Every *)
(* method of ConversationManager is synchronous, so it is one atomic       *)
(* action; a request handler is a process that is suspended only at its    *)
(* awaits (the external search and the external generation).               *)
(***************************************************************************)
EXTENDS Integers, Sequences, FiniteSets, TLC

\* ------------------------------------------------------------------------
\* Program constants
\* ------------------------------------------------------------------------
MAX_HISTORY == 10

MAX_ENTITIES == 20

RECENT_ENTITIES == 5

\* maxMessages of getContextForAI: its default, and what the research-search
\* route passes
DEFAULT_MAX_MESSAGES == 5

RESEARCH_MAX_MESSAGES == 3

\* `undefined` (an optional field that is not set).  No keyword can equal it:
\* a keyword holds word characters only.
Undefined == "<undefined>"

\* ------------------------------------------------------------------------
\* Strings
\* ------------------------------------------------------------------------
UpperCase == <<"A","B","C","D","E","F","G","H","I","J","K","L","M",
               "N","O","P","Q","R","S","T","U","V","W","X","Y","Z">>

LowerCase == <<"a","b","c","d","e","f","g","h","i","j","k","l","m",
               "n","o","p","q","r","s","t","u","v","w","x","y","z">>

Digits == {"0","1","2","3","4","5","6","7","8","9"}

\* \w of a JavaScript regular expression: [A-Za-z0-9_]
WordChars == {UpperCase[i] : i \in 1..26} \cup {LowerCase[i] : i \in 1..26}
             \cup Digits \cup {"_"}

\* \s of a JavaScript regular expression (the characters the model uses)
SpaceChars == {" ", "\t", "\n", "\r"}

CharAt(s, i) == SubSeq(s, i, i)

LowerChar(c) ==
    IF \E i \in 1..26 : UpperCase[i] = c
    THEN LowerCase[CHOOSE i \in 1..26 : UpperCase[i] = c]
    ELSE c

\* The string made of f(c) for each character c of s[lo..hi], in order
\* (halving keeps the evaluation shallow on long texts).
RECURSIVE MapChars(_, _, _, _)
MapChars(s, lo, hi, kind) ==
    IF lo > hi THEN ""
    ELSE IF lo = hi
    THEN LET c == CharAt(s, lo)
         IN IF kind = "lower" THEN LowerChar(c)
            ELSE IF c \in WordChars \/ c \in SpaceChars THEN c ELSE " "
    ELSE LET mid == (lo + hi) \div 2
         IN MapChars(s, lo, mid, kind) \o MapChars(s, mid + 1, hi, kind)

\* String.prototype.toLowerCase
ToLowerCase(s) == MapChars(s, 1, Len(s), "lower")

\* text.replace(/[^\w\s]/g, ' ')
StripPunctuation(s) == MapChars(s, 1, Len(s), "strip")

IsSpaceAt(s, i) == CharAt(s, i) \in SpaceChars

\* text.split(/\s+/): the pieces between the runs of white space, in order;
\* a string that starts (ends) with white space has an empty first (last)
\* piece, and the empty string splits into one empty piece.
SplitWhitespace(s) ==
    LET n       == Len(s)
        starts  == {i \in 1..n : ~IsSpaceAt(s, i) /\ (i = 1 \/ IsSpaceAt(s, i - 1))}
        EndOf(i) == CHOOSE j \in i..n :
                        /\ \A k \in i..j : ~IsSpaceAt(s, k)
                        /\ (j = n \/ IsSpaceAt(s, j + 1))
        Nth(k)  == CHOOSE i \in starts : Cardinality({j \in starts : j < i}) = k - 1
        words   == [k \in 1..Cardinality(starts) |-> SubSeq(s, Nth(k), EndOf(Nth(k)))]
    IN (IF n = 0 \/ IsSpaceAt(s, 1) THEN <<"">> ELSE <<>>)
       \o words
       \o (IF n > 0 /\ IsSpaceAt(s, n) THEN <<"">> ELSE <<>>)

\* haystack.includes(needle)
Includes(hay, needle) ==
    \E i \in 1..(Len(hay) - Len(needle) + 1) :
        SubSeq(hay, i, i + Len(needle) - 1) = needle

\* array.includes(x)
Contains(seq, x) == \E i \in 1..Len(seq) : seq[i] = x

\* array.slice(-n) for n >= 0 (slice(-0) is slice(0): the whole array)
SliceLast(seq, n) ==
    IF n = 0 \/ n >= Len(seq) THEN seq
    ELSE SubSeq(seq, Len(seq) - n + 1, Len(seq))

RECURSIVE Join(_, _)
Join(seq, sep) ==
    IF Len(seq) = 0 THEN ""
    ELSE IF Len(seq) = 1 THEN seq[1]
    ELSE seq[1] \o sep \o Join(Tail(seq), sep)

\* ------------------------------------------------------------------------
\* Keyword extraction
\* ------------------------------------------------------------------------
commonWords ==
    {"the", "a", "an", "and", "or", "but", "in", "on", "at", "to", "for",
     "of", "with", "by", "from", "about", "as", "is", "was", "are", "were",
     "been", "be", "have", "has", "had", "do", "does", "did", "will", "would",
     "could", "should", "may", "might", "can", "what", "where", "when", "how",
     "why", "who", "which", "this", "that", "these", "those", "tell", "me"}

\* Mutant: words of 3 characters are kept too (>= 3 for > 3).
KeepWord_AtLeast3(word) == Len(word) >= 3 /\ word \notin commonWords

\* words.filter(word => word.length > 3 && !commonWords.has(word))
KeepWord(word) == Len(word) > 3 /\ word \notin commonWords

\* Array.from(new Set(words)): first occurrences, in order
RECURSIVE Unique(_, _)
Unique(words, seen) ==
    IF Len(words) = 0 THEN seen
    ELSE Unique(Tail(words),
                IF Contains(seen, Head(words)) THEN seen
                ELSE Append(seen, Head(words)))

extractKeywords(text) ==
    LET words == SelectSeq(SplitWhitespace(StripPunctuation(ToLowerCase(text))),
                           KeepWord)
    IN Unique(words, <<>>)

\* ------------------------------------------------------------------------
\* The texts of the model
\* ------------------------------------------------------------------------
TextPark == "Tell me about Yellowstone National Park"

TextWildlife == "What about wildlife?"

TextGeysers == "Yellowstone geysers"

TextHi == "Hi"

\* A query made of follow-up indicator phrases only
TextIndicators == "and also them"

\* "and" inside a word, behind a capital
TextAndroid == "Android phones"

\* TextWildlife in other letter case
TextShouting == "What ABOUT wildlife?"

\* The text of the spec's keyword example
TextLearning == "What is the difference between supervised and unsupervised learning?"

\* Repeated words, capitals, punctuation and runs of spaces
TextRangers == "Park rangers, park RANGERS!  Rangers?"

\* An underscore, a hyphen, an apostrophe and digits
TextMixed == "snake_case x-ray don't e2e4"

\* A follow-up without a keyword
TextHowAbout == "How about it?"

TextAnswer == "Yellowstone is a large national park..."

\* noResultsMessage of the research-search route
NoResultsMessage == "I couldn't find any relevant research papers to answer your question. Try asking about AI, machine learning, transformers, or LSTM networks."

DigitSeq == <<"0","1","2","3","4","5","6","7","8","9">>

\* "kw01 kw02 ... kw<n>": n distinct keywords (n < 100)
RECURSIVE NumberedWords(_)
NumberedWords(n) ==
    IF n = 0 THEN ""
    ELSE (IF n = 1 THEN "" ELSE NumberedWords(n - 1) \o " ")
         \o "kw" \o DigitSeq[(n \div 10) + 1] \o DigitSeq[(n % 10) + 1]

\* One message that alone carries more than MAX_ENTITIES new keywords
TextMany == NumberedWords(MAX_ENTITIES + 1)

Texts == {TextPark, TextWildlife, TextGeysers, TextHi, TextAnswer,
          NoResultsMessage, TextMany, TextIndicators, TextAndroid,
          TextShouting, TextLearning, TextRangers, TextMixed, TextHowAbout,
          ""}

\* extractKeywords on the texts of the model, evaluated once
KeywordsOf == [t \in Texts |-> extractKeywords(t)]

identifyTopic(text) ==
    LET keywords == KeywordsOf[text]
    IN IF Len(keywords) > 0 THEN keywords[1] ELSE Undefined

\* ------------------------------------------------------------------------
\* Conversations (pure functions on a conversation record and on the Map)
\* ------------------------------------------------------------------------
\* Map.has / Map.set / Map.delete on the conversations map
Has(st, id) == id \in DOMAIN st

\* Mutant: the map is rebuilt with the one entry that is set.
MapSet_DropsOthers(st, id, conv) == [k \in {id} |-> conv]

MapSet(st, id, conv) ==
    [k \in DOMAIN st \cup {id} |-> IF k = id THEN conv ELSE st[k]]

\* Mutant: a deleted record stays in the map with its history emptied.
MapDelete_EmptiesHistory(st, ids) ==
    [k \in DOMAIN st |-> IF k \in ids THEN [st[k] EXCEPT !.messages = <<>>]
                                      ELSE st[k]]

MapDelete(st, ids) == [k \in DOMAIN st \ ids |-> st[k]]

\* The record createConversation builds.  Both timestamps are read from the
\* clock within one synchronous call.
NewConversation(id, t) ==
    [id        |-> id,
     messages  |-> <<>>,
     context   |-> [currentTopic |-> Undefined, entities |-> <<>>],
     createdAt |-> t,
     updatedAt |-> t]

\* Mutant: an id that is in the map keeps its record.
createConversation_KeepsExisting(st, id, t) ==
    IF Has(st, id) THEN st ELSE MapSet(st, id, NewConversation(id, t))

createConversation(st, id, t) == MapSet(st, id, NewConversation(id, t))

\* Mutant: a lookup that finds the record marks it as just used.
getConversation_Touches(st, id, t) ==
    IF Has(st, id) THEN [st EXCEPT ![id].updatedAt = t]
    ELSE MapSet(st, id, NewConversation(id, t))

\* Mutant: the record created for an absent id carries the route's default
\* id instead of the id asked for.
getConversation_DefaultId(st, id, t) ==
    IF Has(st, id) THEN st ELSE MapSet(st, id, NewConversation("default", t))

\* Mutant: every lookup creates.
getConversation_AlwaysCreates(st, id, t) == createConversation(st, id, t)

getConversation(st, id, t) ==
    IF Has(st, id) THEN st ELSE createConversation(st, id, t)

\* The message addMessage builds.  The id `msg_<time>_<random>` is a fresh
\* value: the time and a suffix no other message carries.  An absent
\* metadata argument is <<>>, a given one is <<metadata>>.
NewMessage(n, role, content, metadata, t) ==
    [id        |-> <<t, n>>,
     role      |-> role,
     content   |-> content,
     timestamp |-> t,
     metadata  |-> metadata]

\* Mutant: the trim keeps MAX_HISTORY messages instead of twice as many.
TrimMessages_KeepsHalf(messages) ==
    IF Len(messages) > MAX_HISTORY * 2
    THEN SliceLast(messages, MAX_HISTORY)
    ELSE messages

\* Mutant: over the cap, the trim takes out the second oldest message and
\* keeps the oldest.
TrimMessages_DropsSecond(messages) ==
    IF Len(messages) > MAX_HISTORY * 2
    THEN <<Head(messages)>> \o SliceLast(messages, MAX_HISTORY * 2 - 1)
    ELSE messages

\* if (messages.length > MAX_HISTORY * 2) messages = messages.slice(-MAX_HISTORY * 2)
TrimMessages(messages) ==
    IF Len(messages) > MAX_HISTORY * 2
    THEN SliceLast(messages, MAX_HISTORY * 2)
    ELSE messages

\* Mutant: a keyword that is already an entity is moved to the end.
RECURSIVE PushNew_MovesToEnd(_, _)
PushNew_MovesToEnd(entities, keywords) ==
    IF Len(keywords) = 0 THEN entities
    ELSE PushNew_MovesToEnd(
             Append(SelectSeq(entities, LAMBDA e : e # Head(keywords)),
                    Head(keywords)),
             Tail(keywords))

\* keywords.forEach(k => { if (!entities.includes(k)) entities.push(k) })
RECURSIVE PushNew(_, _)
PushNew(entities, keywords) ==
    IF Len(keywords) = 0 THEN entities
    ELSE PushNew(IF Contains(entities, Head(keywords)) THEN entities
                 ELSE Append(entities, Head(keywords)),
                 Tail(keywords))

\* Mutant: over the cap, the trim drops the one oldest entity.
TrimEntities_DropsOne(entities) ==
    IF Len(entities) > MAX_ENTITIES THEN Tail(entities) ELSE entities

\* if (entities.length > 20) entities = entities.slice(-20)
TrimEntities(entities) ==
    IF Len(entities) > MAX_ENTITIES
    THEN SliceLast(entities, MAX_ENTITIES)
    ELSE entities

\* Mutant: a user message without keyword leaves the topic as it was.
NextTopic_KeepsWhenNone(topic, content, role) ==
    IF role = "user" /\ Len(KeywordsOf[content]) > 0
    THEN identifyTopic(content) ELSE topic

\* Mutant: the topic follows every message, whatever its role.
NextTopic_AnyRole(topic, content, role) == identifyTopic(content)

\* if (role === 'user') currentTopic = identifyTopic(content)
NextTopic(topic, content, role) ==
    IF role = "user" THEN identifyTopic(content) ELSE topic

updateContext(conv, content, role) ==
    [conv EXCEPT !.context =
        [currentTopic |-> NextTopic(conv.context.currentTopic, content, role),
         entities     |-> TrimEntities(PushNew(conv.context.entities,
                                               KeywordsOf[content]))]]

\* Mutant: the append leaves updatedAt as it was.
PushMessage_KeepsUpdatedAt(conv, message, t) ==
    updateContext([conv EXCEPT !.messages = TrimMessages(Append(@, message))],
                  message.content, message.role)

\* Mutant: the message goes to the front of the history (unshift for push).
PushMessage_Prepends(conv, message, t) ==
    updateContext([conv EXCEPT !.messages  = TrimMessages(<<message>> \o @),
                               !.updatedAt = t],
                  message.content, message.role)

\* The conversation after addMessage has pushed `message` onto it.
PushMessage(conv, message, t) ==
    updateContext([conv EXCEPT !.messages  = TrimMessages(Append(@, message)),
                               !.updatedAt = t],
                  message.content, message.role)

\* Mutant: addMessage starts from a new record instead of the stored one.
addMessage_Overwrites(st, id, message, t) ==
    LET st1 == createConversation(st, id, t)
    IN [st1 EXCEPT ![id] = PushMessage(st1[id], message, t)]

addMessage(st, id, message, t) ==
    LET st1 == getConversation(st, id, t)
    IN [st1 EXCEPT ![id] = PushMessage(st1[id], message, t)]

\* Mutant: a record as old as maxAge is collected too.
TooOld_AtLeast(conv, t, maxAge) == t - conv.updatedAt >= maxAge

\* Mutant: the age is counted from createdAt instead of updatedAt.
TooOld_SinceCreation(conv, t, maxAge) == t - conv.createdAt > maxAge

\* The ids clearOldConversations collects in toDelete
TooOld(conv, t, maxAge) == t - conv.updatedAt > maxAge

clearOldConversations(st, t, maxAge) ==
    MapDelete(st, {id \in DOMAIN st : TooOld(st[id], t, maxAge)})

followUpIndicators ==
    <<"what about", "how about", "and", "also", "more", "another",
      "it", "its", "their", "them", "this", "that", "these", "those",
      "compared to", "versus", "vs", "difference between">>

\* Mutant: the query is searched as typed (no toLowerCase).
HasIndicator_CaseSensitive(query) ==
    \E i \in 1..Len(followUpIndicators) :
        Includes(query, followUpIndicators[i])

\* followUpIndicators.some(indicator => lowerQuery.includes(indicator))
HasIndicator(query) ==
    LET lowerQuery == ToLowerCase(query)
    IN \E i \in 1..Len(followUpIndicators) :
           Includes(lowerQuery, followUpIndicators[i])

\* toLowerCase on the texts of the model, evaluated once
LowerOf == [t \in Texts |-> ToLowerCase(t)]

\* HasIndicator on the texts of the model, evaluated once
IndicatorIn == [t \in Texts |-> HasIndicator(t)]

\* Mutant: one stored message is enough for a follow-up.
isFollowUpQuestion_OneMessage(st, id, query) ==
    IF ~Has(st, id) \/ Len(st[id].messages) < 1 THEN FALSE
    ELSE IndicatorIn[query]

\* Mutant: a follow-up needs an assistant message in the conversation.
isFollowUpQuestion_NeedsAssistant(st, id, query) ==
    IF ~Has(st, id) \/ Len(st[id].messages) < 2 THEN FALSE
    ELSE /\ \E i \in 1..Len(st[id].messages) : st[id].messages[i].role = "assistant"
         /\ IndicatorIn[query]

\* isFollowUpQuestion reads the map with Map.get: it creates nothing.
isFollowUpQuestion(st, id, query) ==
    IF ~Has(st, id) \/ Len(st[id].messages) < 2 THEN FALSE
    ELSE IndicatorIn[query]

\* `if (value)` on an optional string
Truthy(s) == s # Undefined /\ s # ""

\* Mutant: the topic and the entities are appended whether or not the query
\* is a follow-up.
EnhancedQuery_Always(st, id, query) ==
    LET ctx    == st[id].context
        q1     == IF Truthy(ctx.currentTopic)
                  THEN query \o " " \o ctx.currentTopic ELSE query
        recent == SliceLast(ctx.entities, RECENT_ENTITIES)
    IN IF Len(recent) > 0 THEN q1 \o " " \o Join(recent, " ") ELSE q1

\* Mutant: the oldest entities are appended (slice(0, 5) for slice(-5)).
EnhancedQuery_FirstEntities(st, id, query) ==
    IF ~isFollowUpQuestion(st, id, query) THEN query
    ELSE LET ctx    == st[id].context
             q1     == IF Truthy(ctx.currentTopic)
                       THEN query \o " " \o ctx.currentTopic ELSE query
             recent == SubSeq(ctx.entities, 1,
                              IF Len(ctx.entities) < RECENT_ENTITIES
                              THEN Len(ctx.entities) ELSE RECENT_ENTITIES)
         IN IF Len(recent) > 0 THEN q1 \o " " \o Join(recent, " ") ELSE q1

\* Mutant: all the entities are appended (no slice(-5)).
EnhancedQuery_AllEntities(st, id, query) ==
    IF ~isFollowUpQuestion(st, id, query) THEN query
    ELSE LET ctx    == st[id].context
             q1     == IF Truthy(ctx.currentTopic)
                       THEN query \o " " \o ctx.currentTopic ELSE query
             recent == ctx.entities
         IN IF Len(recent) > 0 THEN q1 \o " " \o Join(recent, " ") ELSE q1

\* What enhanceQueryWithContext returns on the map it has (after its
\* getConversation).
EnhancedQuery(st, id, query) ==
    IF ~isFollowUpQuestion(st, id, query) THEN query
    ELSE LET ctx    == st[id].context
             q1     == IF Truthy(ctx.currentTopic)
                       THEN query \o " " \o ctx.currentTopic ELSE query
             recent == SliceLast(ctx.entities, RECENT_ENTITIES)
         IN IF Len(recent) > 0 THEN q1 \o " " \o Join(recent, " ") ELSE q1

RECURSIVE TranscriptLines(_)
TranscriptLines(msgs) ==
    IF Len(msgs) = 0 THEN ""
    ELSE (IF Head(msgs).role = "user" THEN "User" ELSE "Assistant")
         \o ": " \o Head(msgs).content \o "\n" \o TranscriptLines(Tail(msgs))

\* Mutant: no early return on an empty slice.
ContextForAI_NoEarlyReturn(st, id, maxMessages) ==
    LET conv           == st[id]
        recentMessages == SliceLast(conv.messages, maxMessages)
    IN "\n\nConversation History:\n"
       \o TranscriptLines(recentMessages)
       \o (IF Truthy(conv.context.currentTopic)
           THEN "\nCurrent Topic: " \o conv.context.currentTopic \o "\n"
           ELSE "")
       \o (IF Len(conv.context.entities) > 0
           THEN "Referenced Entities: "
                \o Join(conv.context.entities, ", ") \o "\n"
           ELSE "")

\* What getContextForAI returns on the map it has (after its getConversation).
ContextForAI(st, id, maxMessages) ==
    LET conv           == st[id]
        recentMessages == SliceLast(conv.messages, maxMessages)
    IN IF Len(recentMessages) = 0 THEN ""
       ELSE "\n\nConversation History:\n"
            \o TranscriptLines(recentMessages)
            \o (IF Truthy(conv.context.currentTopic)
                THEN "\nCurrent Topic: " \o conv.context.currentTopic \o "\n"
                ELSE "")
            \o (IF Len(conv.context.entities) > 0
                THEN "Referenced Entities: "
                     \o Join(conv.context.entities, ", ") \o "\n"
                ELSE "")


\* ------------------------------------------------------------------------
\* Bounds and inputs
\* ------------------------------------------------------------------------
\* Direct addMessage calls in a run of Spec and of SpecQuery
MaxCalls == 2

\* addMessage calls in a run of SpecLong
MaxLongCalls == 25

\* Messages already on the record when SpecBusy starts
BusyMessages == 20

\* The clock runs from 0 to MaxClock.
MaxClock == 1

ConvIds == {"c1", "c2"}

\* The (role, content) pairs of the direct addMessage calls
Utterances ==
    {<<"user", TextPark>>, <<"user", TextHi>>, <<"user", TextMany>>,
     <<"assistant", TextMany>>, <<"system", TextGeysers>>}

\* The one call SpecLong repeats
LongUtterances == {<<"user", TextPark>>}

LongIds == {"c1"}

\* The contents of the messages of SpecText
KeywordTexts == {TextLearning, TextRangers, TextMixed, TextPark, TextHi,
                 NoResultsMessage, ""}

\* The messages and the queries of SpecRead
ReadUtterances == {<<"user", TextPark>>, <<"assistant", TextMany>>}

ReadQueries == {TextWildlife, TextGeysers}

Queries == {TextWildlife, TextGeysers, TextIndicators, TextAndroid,
            TextShouting}

MaxAges == {0, 1}

MaxMessagesArgs == {0, 1, 5}

Handlers == {"h1", "h2"}

\* The request bodies of the POST handlers: "research" is the
\* research-search route, "search" the hybrid-search route.
Requests ==
    {[route |-> "research", conversationId |-> "c1", query |-> TextWildlife,
      useConversationContext |-> TRUE],
     [route |-> "search", conversationId |-> "c1", query |-> TextPark,
      useConversationContext |-> TRUE],
     [route |-> "research", conversationId |-> "c2", query |-> TextGeysers,
      useConversationContext |-> FALSE],
     [route |-> "search", conversationId |-> "c2", query |-> "",
      useConversationContext |-> TRUE]}

\* The requests of SpecBusy: all on one conversation
BusyRequests ==
    {r \in Requests : r.conversationId = "c1"}
    \cup {[route |-> "search", conversationId |-> "c1", query |-> TextHowAbout,
           useConversationContext |-> TRUE]}

\* searchResults.length of the external search
ResultCounts == {0, 2}

Answers == {TextAnswer}

\* ------------------------------------------------------------------------
\* State
\* ------------------------------------------------------------------------
VARIABLES
    store,    \* ConversationManager.conversations: id -> Conversation
    now,      \* the clock (Date.now())
    nextMsg,  \* number of messages built so far (the fresh part of a message id)
    req,      \* per request handler: where it is and its local variables
    log,      \* history: per id, the messages appended since its record was created
    swept,    \* history: the records the sweep removed, until their id is used again
    last      \* the call made by the latest step, with what it returned

vars == <<store, now, nextMsg, req, log, swept, last>>

NoArg == "-"

Call(op, id, arg, result) == [op |-> op, id |-> id, arg |-> arg, result |-> result]

\* A handler that has not received its request (calls: history, the calls
\* it has made on the manager and on the external services, in order)
IdleRequest ==
    [pc |-> "idle", route |-> NoArg, conversationId |-> NoArg, query |-> NoArg,
     useConversationContext |-> FALSE, startTime |-> 0, enhancedQuery |-> NoArg,
     searchResults |-> 0, conversationContext |-> NoArg, status |-> 0,
     calls |-> <<>>]

Init ==
    /\ store = [k \in {} |-> NewConversation(k, 0)]
    /\ now = 0
    /\ nextMsg = 0
    /\ req = [h \in Handlers |-> IdleRequest]
    /\ log = [k \in ConvIds |-> <<>>]
    /\ swept = [k \in {} |-> NewConversation(k, 0)]
    /\ last = Call("init", NoArg, NoArg, NoArg)

\* The history variables after a step that took the map to st2, created
\* id's record when `fresh`, and appended the messages `appended` to it.
LogAfter(st2, id, fresh, appended) ==
    [k \in ConvIds |->
        IF ~Has(st2, k) THEN <<>>
        ELSE IF k = id THEN (IF fresh THEN <<>> ELSE log[k]) \o appended
        ELSE log[k]]

\* `deleted`: the ids a sweep collected in toDelete; `touched`: the ids the
\* step created or looked up with get-or-create.
SweptAfter(deleted, touched) ==
    [k \in (DOMAIN swept \cup deleted) \ touched |->
        IF k \in deleted THEN store[k] ELSE swept[k]]

\* What a lookup of id meets: a record, the gap the sweep left where a
\* record with messages was, or nothing.
Meets(id) ==
    IF Has(store, id) THEN "found"
    ELSE IF id \in DOMAIN swept /\ swept[id].messages # <<>> THEN "swept"
    ELSE "absent"

\* What createConversation's Map.set overwrites: the record under id, if any
Replaced(id) == IF Has(store, id) THEN <<store[id]>> ELSE <<>>

Collected(maxAge) == {id \in DOMAIN store : TooOld(store[id], now, maxAge)}

\* ------------------------------------------------------------------------
\* The manager's API, called directly
\* ------------------------------------------------------------------------
\* The clock advances between calls.
Tick ==
    /\ now < MaxClock
    /\ now' = now + 1
    /\ last' = Call("tick", NoArg, NoArg, NoArg)
    /\ UNCHANGED <<store, nextMsg, req, log, swept>>

CreateConversation(id) ==
    /\ store' = createConversation(store, id, now)
    /\ log' = LogAfter(store', id, TRUE, <<>>)
    /\ swept' = SweptAfter({}, {id})
    /\ last' = Call("createConversation", id, Replaced(id), store'[id])
    /\ UNCHANGED <<now, nextMsg, req>>

GetConversation(id) ==
    /\ store' = getConversation(store, id, now)
    /\ log' = LogAfter(store', id, ~Has(store, id), <<>>)
    /\ swept' = SweptAfter({}, {id})
    /\ last' = Call("getConversation", id, Meets(id), store'[id])
    /\ UNCHANGED <<now, nextMsg, req>>

AddMessage(id, role, content, metadata) ==
    LET message == NewMessage(nextMsg + 1, role, content, metadata, now) IN
    /\ store' = addMessage(store, id, message, now)
    /\ nextMsg' = nextMsg + 1
    /\ log' = LogAfter(store', id, ~Has(store, id), <<message>>)
    /\ swept' = SweptAfter({}, {id})
    /\ last' = Call("addMessage", id, NoArg, message)
    /\ UNCHANGED <<now, req>>

IsFollowUpQuestion(id, query) ==
    /\ last' = Call("isFollowUpQuestion", id, query,
                    isFollowUpQuestion(store, id, query))
    /\ UNCHANGED <<store, now, nextMsg, req, log, swept>>

EnhanceQueryWithContext(id, query) ==
    /\ store' = getConversation(store, id, now)
    /\ log' = LogAfter(store', id, ~Has(store, id), <<>>)
    /\ swept' = SweptAfter({}, {id})
    /\ last' = Call("enhanceQueryWithContext", id, query,
                    EnhancedQuery(store', id, query))
    /\ UNCHANGED <<now, nextMsg, req>>

GetContextForAI(id, maxMessages) ==
    /\ store' = getConversation(store, id, now)
    /\ log' = LogAfter(store', id, ~Has(store, id), <<>>)
    /\ swept' = SweptAfter({}, {id})
    /\ last' = Call("getContextForAI", id, maxMessages,
                    ContextForAI(store', id, maxMessages))
    /\ UNCHANGED <<now, nextMsg, req>>

ClearOldConversations(maxAge) ==
    /\ store' = clearOldConversations(store, now, maxAge)
    /\ log' = LogAfter(store', NoArg, FALSE, <<>>)
    /\ swept' = SweptAfter(Collected(maxAge), {})
    /\ last' = Call("clearOldConversations", NoArg, maxAge, NoArg)
    /\ UNCHANGED <<now, nextMsg, req>>

\* ------------------------------------------------------------------------
\* The POST handlers.  A handler runs from one await to the next in one
\* step; other handlers and callers run while it awaits the search or the
\* generation.
\* ------------------------------------------------------------------------
Respond(h, code) == [req EXCEPT ![h].pc = "done", ![h].status = code]

\* Mutant: the query is enhanced before the user message is appended.
PostStart_EnhancesFirst(h, r) ==
    /\ req[h].pc = "idle"
    /\ IF r.query = ""
       THEN /\ req' = [req EXCEPT ![h] =
                          [IdleRequest EXCEPT !.pc = "done", !.status = 400,
                                              !.route = r.route]]
            /\ UNCHANGED <<store, nextMsg, log, swept>>
       ELSE LET id      == r.conversationId
                message == NewMessage(nextMsg + 1, "user", r.query, <<>>, now)
                st0     == getConversation(store, id, now)
                st1     == addMessage(store, id, message, now)
                st2     == IF r.useConversationContext
                           THEN getConversation(st1, id, now) ELSE st1
            IN /\ store' = st2
               /\ nextMsg' = nextMsg + 1
               /\ log' = LogAfter(st2, id, ~Has(store, id), <<message>>)
               /\ swept' = SweptAfter({}, {id})
               /\ req' = [req EXCEPT ![h] =
                            [IdleRequest EXCEPT
                                !.pc = "search",
                                !.route = r.route,
                                !.conversationId = id,
                                !.query = r.query,
                                !.useConversationContext = r.useConversationContext,
                                !.startTime = now,
                                !.enhancedQuery =
                                    IF r.useConversationContext
                                    THEN EnhancedQuery(st0, id, r.query)
                                    ELSE r.query,
                                !.calls =
                                    <<<<"addMessage", "user", r.query>>>>
                                    \o (IF r.useConversationContext
                                        THEN <<<<"enhanceQueryWithContext", r.query>>>>
                                        ELSE <<>>)
                                    \o <<<<"search",
                                           IF r.useConversationContext
                                           THEN EnhancedQuery(st0, id, r.query)
                                           ELSE r.query>>>>]]
    /\ last' = Call("POST", h, NoArg, NoArg)
    /\ UNCHANGED now

\* From the request to `await search(enhancedQuery)`
PostStart(h, r) ==
    /\ req[h].pc = "idle"
    /\ IF r.query = ""
       THEN /\ req' = [req EXCEPT ![h] =
                          [IdleRequest EXCEPT !.pc = "done", !.status = 400,
                                              !.route = r.route]]
            /\ UNCHANGED <<store, nextMsg, log, swept>>
       ELSE LET id      == r.conversationId
                message == NewMessage(nextMsg + 1, "user", r.query, <<>>, now)
                st1     == addMessage(store, id, message, now)
                st2     == IF r.useConversationContext
                           THEN getConversation(st1, id, now) ELSE st1
            IN /\ store' = st2
               /\ nextMsg' = nextMsg + 1
               /\ log' = LogAfter(st2, id, ~Has(store, id), <<message>>)
               /\ swept' = SweptAfter({}, {id})
               /\ req' = [req EXCEPT ![h] =
                            [IdleRequest EXCEPT
                                !.pc = "search",
                                !.route = r.route,
                                !.conversationId = id,
                                !.query = r.query,
                                !.useConversationContext = r.useConversationContext,
                                !.startTime = now,
                                !.enhancedQuery =
                                    IF r.useConversationContext
                                    THEN EnhancedQuery(st2, id, r.query)
                                    ELSE r.query,
                                !.calls =
                                    <<<<"addMessage", "user", r.query>>>>
                                    \o (IF r.useConversationContext
                                        THEN <<<<"enhanceQueryWithContext", r.query>>>>
                                        ELSE <<>>)
                                    \o <<<<"search",
                                           IF r.useConversationContext
                                           THEN EnhancedQuery(st2, id, r.query)
                                           ELSE r.query>>>>]]
    /\ last' = Call("POST", h, NoArg, NoArg)
    /\ UNCHANGED now

\* Mutant: the handler goes on to the generation without asking the manager
\* for the conversation's context.
SearchReturns_SkipsContext(h, n) ==
    LET r  == req[h]
        id == r.conversationId
    IN
    /\ r.pc = "search"
    /\ IF r.route = "research" /\ n = 0
       THEN LET message == NewMessage(nextMsg + 1, "assistant",
                                      NoResultsMessage, <<>>, now)
            IN /\ store' = addMessage(store, id, message, now)
               /\ nextMsg' = nextMsg + 1
               /\ log' = LogAfter(store', id, ~Has(store, id), <<message>>)
               /\ swept' = SweptAfter({}, {id})
               /\ req' = [Respond(h, 200) EXCEPT ![h].calls =
                            @ \o <<<<"addMessage", "assistant", NoResultsMessage>>>>]
       ELSE /\ req' = [req EXCEPT ![h].pc = "generate",
                                  ![h].searchResults = n,
                                  ![h].conversationContext = "",
                                  ![h].calls =
                                      @ \o <<<<"generateResponse", r.query>>>>]
            /\ UNCHANGED <<store, nextMsg, log, swept>>
    /\ last' = Call("POST", h, NoArg, NoArg)
    /\ UNCHANGED now

\* The search returned n results: the research-search route answers an empty
\* result at once; otherwise on to `await generateResponse(...)`.
SearchReturns(h, n) ==
    LET r  == req[h]
        id == r.conversationId
    IN
    /\ r.pc = "search"
    /\ IF r.route = "research" /\ n = 0
       THEN LET message == NewMessage(nextMsg + 1, "assistant",
                                      NoResultsMessage, <<>>, now)
            IN /\ store' = addMessage(store, id, message, now)
               /\ nextMsg' = nextMsg + 1
               /\ log' = LogAfter(store', id, ~Has(store, id), <<message>>)
               /\ req' = [Respond(h, 200) EXCEPT ![h].calls =
                            @ \o <<<<"addMessage", "assistant", NoResultsMessage>>>>]
       ELSE LET st1 == IF r.useConversationContext
                       THEN getConversation(store, id, now) ELSE store
                k   == IF r.route = "research" THEN RESEARCH_MAX_MESSAGES
                       ELSE DEFAULT_MAX_MESSAGES
            IN /\ store' = st1
               /\ log' = LogAfter(st1, id, ~Has(store, id), <<>>)
               /\ req' = [req EXCEPT ![h].pc = "generate",
                                     ![h].searchResults = n,
                                     ![h].conversationContext =
                                         IF r.useConversationContext
                                         THEN ContextForAI(st1, id, k) ELSE "",
                                     ![h].calls =
                                         @ \o (IF r.useConversationContext
                                               THEN <<<<"getContextForAI", k>>>>
                                               ELSE <<>>)
                                           \o <<<<"generateResponse", r.query>>>>]
               /\ UNCHANGED nextMsg
    /\ swept' = SweptAfter({}, IF (r.route = "research" /\ n = 0)
                                   \/ r.useConversationContext
                                THEN {id} ELSE {})
    /\ last' = Call("POST", h, NoArg, NoArg)
    /\ UNCHANGED now

\* Mutant: the catch block takes the request's user message back.
SearchThrows_RollsBack(h) ==
    /\ req[h].pc = "search"
    /\ req' = Respond(h, 500)
    /\ store' = IF Has(store, req[h].conversationId)
                THEN [store EXCEPT ![req[h].conversationId].messages =
                         SubSeq(@, 1, Len(@) - 1)]
                ELSE store
    /\ last' = Call("POST", h, NoArg, NoArg)
    /\ UNCHANGED <<now, nextMsg, log, swept>>

\* The search threw: the catch block answers 500.
SearchThrows(h) ==
    /\ req[h].pc = "search"
    /\ req' = Respond(h, 500)
    /\ last' = Call("POST", h, NoArg, NoArg)
    /\ UNCHANGED <<store, now, nextMsg, log, swept>>

\* The generation returned `answer`: append it and answer 200.
GenerateReturns(h, answer) ==
    LET r        == req[h]
        id       == r.conversationId
        metadata == [searchResults |-> r.searchResults,
                     responseTime  |-> now - r.startTime]
        message  == NewMessage(nextMsg + 1, "assistant", answer, <<metadata>>, now)
    IN
    /\ r.pc = "generate"
    /\ store' = addMessage(store, id, message, now)
    /\ nextMsg' = nextMsg + 1
    /\ log' = LogAfter(store', id, ~Has(store, id), <<message>>)
    /\ swept' = SweptAfter({}, {id})
    /\ req' = [Respond(h, 200) EXCEPT ![h].calls =
                 @ \o <<<<"addMessage", "assistant", answer>>>>]
    /\ last' = Call("POST", h, NoArg, NoArg)
    /\ UNCHANGED now

\* The generation threw: the catch block answers 500.
GenerateThrows(h) ==
    /\ req[h].pc = "generate"
    /\ req' = Respond(h, 500)
    /\ last' = Call("POST", h, NoArg, NoArg)
    /\ UNCHANGED <<store, now, nextMsg, log, swept>>

\* ------------------------------------------------------------------------
\* Specifications
\* ------------------------------------------------------------------------
\* The life of the records: any caller creating, getting, appending, sweeping
Next ==
    \/ Tick
    \/ \E id \in ConvIds : CreateConversation(id)
    \/ \E id \in ConvIds : GetConversation(id)
    \/ \E id \in ConvIds, u \in Utterances :
          nextMsg < MaxCalls /\ AddMessage(id, u[1], u[2], <<>>)
    \/ \E maxAge \in MaxAges : ClearOldConversations(maxAge)

Spec == Init /\ [][Next]_vars

\* The queries on the conversations that addMessage builds
NextQuery ==
    \/ \E id \in ConvIds, u \in Utterances :
          nextMsg < MaxCalls /\ AddMessage(id, u[1], u[2], <<>>)
    \/ \E id \in ConvIds, query \in Queries : IsFollowUpQuestion(id, query)
    \/ \E id \in ConvIds, query \in Queries : EnhanceQueryWithContext(id, query)
    \/ \E id \in ConvIds, n \in MaxMessagesArgs : GetContextForAI(id, n)

SpecQuery == Init /\ [][NextQuery]_vars

\* Concurrent requests, with the sweep and the GET handler running between
\* their steps
NextReq ==
    \/ Tick
    \/ \E h \in Handlers, r \in Requests : PostStart(h, r)
    \/ \E h \in Handlers, n \in ResultCounts : SearchReturns(h, n)
    \/ \E h \in Handlers : SearchThrows(h)
    \/ \E h \in Handlers, answer \in Answers : GenerateReturns(h, answer)
    \/ \E h \in Handlers : GenerateThrows(h)
    \/ \E id \in ConvIds : GetConversation(id)
    \/ \E maxAge \in MaxAges : ClearOldConversations(maxAge)

SpecReq == Init /\ [][NextReq]_vars

\* One conversation filled past the cap of its history
NextLong ==
    \/ \E id \in LongIds, u \in LongUtterances :
          nextMsg < MaxLongCalls /\ AddMessage(id, u[1], u[2], <<>>)
    \/ \E id \in LongIds : CreateConversation(id)
    \/ \E id \in LongIds : GetConversation(id)

SpecLong == Init /\ [][NextLong]_vars

\* User messages of many shapes, for the keywords taken from them
NextText ==
    \E id \in ConvIds, text \in KeywordTexts :
        nextMsg < MaxCalls /\ AddMessage(id, "user", text, <<>>)

SpecText == Init /\ [][NextText]_vars

\* Every operation that takes an id, on two ids, as the clock advances
NextRead ==
    \/ Tick
    \/ \E id \in ConvIds : CreateConversation(id)
    \/ \E id \in ConvIds : GetConversation(id)
    \/ \E id \in ConvIds, u \in ReadUtterances :
          nextMsg < MaxCalls /\ AddMessage(id, u[1], u[2], <<>>)
    \/ \E id \in ConvIds, query \in ReadQueries : IsFollowUpQuestion(id, query)
    \/ \E id \in ConvIds, query \in ReadQueries :
          EnhanceQueryWithContext(id, query)
    \/ \E id \in ConvIds : GetContextForAI(id, DEFAULT_MAX_MESSAGES)
    \/ \E maxAge \in MaxAges : ClearOldConversations(maxAge)

SpecRead == Init /\ [][NextRead]_vars

\* The messages of n addMessage calls on conversation c1, and the map after
\* them
BusyMessage(i) == NewMessage(i, "user", TextPark, <<>>, 0)

RECURSIVE Filled(_)
Filled(n) ==
    IF n = 0 THEN [k \in {} |-> NewConversation(k, 0)]
    ELSE addMessage(Filled(n - 1), "c1", BusyMessage(n), 0)

\* Two concurrent requests on a conversation whose history is full: it holds
\* the most messages addMessage keeps
InitBusy ==
    /\ store = Filled(BusyMessages)
    /\ now = 0
    /\ nextMsg = BusyMessages
    /\ req = [h \in Handlers |-> IdleRequest]
    /\ log = [k \in ConvIds |->
                IF k = "c1" THEN [i \in 1..BusyMessages |-> BusyMessage(i)]
                ELSE <<>>]
    /\ swept = [k \in {} |-> NewConversation(k, 0)]
    /\ last = Call("addMessage", "c1", NoArg, BusyMessage(BusyMessages))

NextBusy ==
    \/ Tick
    \/ \E h \in Handlers, r \in BusyRequests : PostStart(h, r)
    \/ \E h \in Handlers, n \in ResultCounts : SearchReturns(h, n)
    \/ \E h \in Handlers : SearchThrows(h)
    \/ \E h \in Handlers, answer \in Answers : GenerateReturns(h, answer)
    \/ \E h \in Handlers : GenerateThrows(h)
    \/ \E maxAge \in MaxAges : ClearOldConversations(maxAge)

SpecBusy == InitBusy /\ [][NextBusy]_vars

\* ------------------------------------------------------------------------
\* Properties
\* ------------------------------------------------------------------------
Present == DOMAIN store

C2_HistoryIsSuffixOfAppends ==
    \A id \in Present :
        LET n == Len(log[id])
            m == store[id].messages
        IN /\ \E k \in 0..n : m = SubSeq(log[id], k + 1, n)
           /\ \A i, j \in 1..Len(m) : m[i].id = m[j].id => i = j

\* Both requests ran to their answer on one conversation, the second one
\* starting while the first awaited its search; the history is full and ends
\* with their four messages in the order of the appends.
C2_Witness ==
    /\ \A h \in Handlers :
          /\ req[h].pc = "done"
          /\ req[h].status = 200
          /\ req[h].conversationId = "c1"
          /\ req[h].searchResults > 0
    /\ req["h1"].query # req["h2"].query
    /\ Len(log["c1"]) = BusyMessages + 4
    /\ "c1" \in Present
    /\ LET m == store["c1"].messages
           n == Len(m)
       IN /\ n = MAX_HISTORY * 2
          /\ <<m[n - 3].role, m[n - 2].role, m[n - 1].role, m[n].role>>
                = <<"user", "user", "assistant", "assistant">>
          /\ {m[n - 3].content, m[n - 2].content}
                = {req["h1"].query, req["h2"].query}

\* The record that the appends of `msgs`, run one after the other, make of
\* conv
RECURSIVE SerialFrom(_, _)
SerialFrom(conv, msgs) ==
    IF msgs = <<>> THEN conv
    ELSE SerialFrom(PushMessage(conv, Head(msgs), Head(msgs).timestamp),
                    Tail(msgs))

\* C3: the appends of concurrent requests on one id take effect as if run
\* one after the other, in the order they executed: the history, the
\* entities and the topic are those of that serial run, each message is in
\* the history once, and the history has lost one message for each call
\* made on a full history, no more.
C3_AppendsAreSerial ==
    \A id \in Present :
        LET n      == Len(log[id])
            m      == store[id].messages
            serial == SerialFrom(NewConversation(id, 0), log[id])
        IN /\ m = serial.messages
           /\ store[id].context = serial.context
           /\ \A i \in 1..n :
                 Cardinality({j \in 1..Len(m) : m[j] = log[id][i]})
                    = IF i > n - MAX_HISTORY * 2 THEN 1 ELSE 0
           /\ n - Len(m) = IF n > MAX_HISTORY * 2
                           THEN n - MAX_HISTORY * 2 ELSE 0

\* Two requests on one id both await their search: each appended its query
\* while the other was in flight, and the two appends each dropped the
\* oldest message of a full history.
C3_Witness ==
    /\ \A h \in Handlers :
          req[h].pc = "search" /\ req[h].conversationId = "c1"
    /\ req["h1"].query # req["h2"].query
    /\ "c1" \in Present
    /\ Len(log["c1"]) >= MAX_HISTORY * 2 + 2
    /\ LET m == store["c1"].messages
           n == Len(m)
       IN /\ n = MAX_HISTORY * 2
          /\ {m[n - 1].content, m[n].content}
                = {req["h1"].query, req["h2"].query}
          /\ store["c1"].context.currentTopic = identifyTopic(m[n].content)

C5_EntitiesCapped ==
    \A id \in Present : Len(store[id].context.entities) <= 20

\* A message with 21 new keywords went onto a record that held entities.
C5_Witness ==
    /\ last.op = "addMessage"
    /\ last.result.content = TextMany
    /\ Len(KeywordsOf[TextMany]) > 20
    /\ Len(log[last.id]) = 2
    /\ log[last.id][1].content = TextPark
    /\ Len(store[last.id].context.entities) = 20

\* C6: enhanceQueryWithContext returns the query it was given whenever
\* isFollowUpQuestion is false for that id and query.
C6_NonFollowUpUnchanged ==
    (last.op = "enhanceQueryWithContext"
        /\ ~isFollowUpQuestion(store, last.id, last.arg))
    => last.result = last.arg

\* The query has no indicator although the record has a topic and entities.
C6_Witness ==
    /\ last.op = "enhanceQueryWithContext"
    /\ Len(store[last.id].messages) >= 2
    /\ Truthy(store[last.id].context.currentTopic)
    /\ Len(store[last.id].context.entities) > 0
    /\ ~isFollowUpQuestion(store, last.id, last.arg)
    /\ last.result = last.arg

\* C7: isFollowUpQuestion is false when the id is absent or its record holds
\* fewer than 2 messages, whatever the query.
C7_FreshIsNeverFollowUp ==
    (last.op = "isFollowUpQuestion"
        /\ (last.id \notin Present \/ Len(store[last.id].messages) <= 1))
    => last.result = FALSE

\* A query of indicator phrases only, asked of a record with one message.
C7_Witness ==
    /\ last.op = "isFollowUpQuestion"
    /\ last.arg = TextIndicators
    /\ HasIndicator(TextIndicators)
    /\ last.id \in Present
    /\ Len(store[last.id].messages) = 1
    /\ last.result = FALSE

\* C8: getConversation on an id that is not in the map stores and returns a
\* record with that id, no message, no entity and no topic.
C8_AbsentIdGetsEmptyRecord ==
    [][(last'.op = "getConversation" /\ last'.id \notin Present)
        => /\ last'.result.id = last'.id
           /\ last'.result.messages = <<>>
           /\ last'.result.context.entities = <<>>
           /\ last'.result.context.currentTopic = Undefined
           /\ last'.id \in DOMAIN store'
           /\ store'[last'.id] = last'.result]_vars

\* The id was absent while another record held messages.
C8_Witness ==
    /\ last.op = "getConversation"
    /\ last.arg # "found"
    /\ last.result.messages = <<>>
    /\ \E other \in Present \ {last.id} : Len(store[other].messages) > 0

\* C9: getConversation always returns a record that is in the map under the
\* id; for an id already there it is the stored record, and nothing changes.
C9_GetNeverFails ==
    [][last'.op = "getConversation"
        => /\ last'.id \in DOMAIN store'
           /\ last'.result = store'[last'.id]
           /\ (last'.id \in Present
                 => store' = store /\ last'.result = store[last'.id])]_vars

\* A record with messages, last written before now, was looked up.
C9_Witness ==
    /\ last.op = "getConversation"
    /\ last.arg = "found"
    /\ Len(last.result.messages) > 0
    /\ last.result.updatedAt < now
    /\ store[last.id] = last.result

\* C10: the getConversation that follows the removal of a record by the
\* sweep returns a new record: no message, no entity, no topic.
C10_DeletedComesBackEmpty ==
    [][(last'.op = "getConversation" /\ last'.id \in DOMAIN swept)
        => /\ last'.result.messages = <<>>
           /\ last'.result.context.entities = <<>>
           /\ last'.result.context.currentTopic = Undefined
           /\ last'.result.createdAt = now
           /\ store'[last'.id] = last'.result]_vars

\* The record the sweep removed held messages; the lookup made it anew.
C10_Witness ==
    /\ last.op = "getConversation"
    /\ last.arg = "swept"
    /\ last.result.messages = <<>>
    /\ last.result.createdAt > 0

\* C11: clearOldConversations(maxAge) removes the records whose age
\* (now - updatedAt) is greater than maxAge, and only those: every other
\* record, one whose age equals maxAge included, stays as it was, and the
\* sweep adds none.
C11_SweepRemovesExactlyTheOld ==
    [][last'.op = "clearOldConversations"
        => /\ DOMAIN store' \subseteq Present
           /\ \A id \in Present :
                 IF now - store[id].updatedAt > last'.arg
                 THEN id \notin DOMAIN store'
                 ELSE id \in DOMAIN store' /\ store'[id] = store[id]]_vars

\* A sweep with maxAge 0 at a later instant: the record written at that
\* instant (age equal to maxAge) is there with its message, although it was
\* created earlier; the one last written earlier was removed.
C11_Witness ==
    /\ last.op = "clearOldConversations"
    /\ last.arg = 0
    /\ now > 0
    /\ \E id \in Present :
          /\ store[id].updatedAt = now
          /\ store[id].createdAt < now
          /\ Len(store[id].messages) > 0
    /\ \E id \in DOMAIN swept :
          /\ swept[id].updatedAt < now
          /\ Len(swept[id].messages) > 0

\* C12: the scenario of a conversation that starts with the user message
\* "Tell me about Yellowstone National Park".  While that message is the
\* only one, "What about wildlife?" is no follow-up and comes back from
\* enhanceQueryWithContext unchanged.  Once an assistant message follows, it
\* is a follow-up, the topic is still "yellowstone", and the enhanced query
\* is the query, then " yellowstone", then the latest entities, at most 5 of
\* them, each after one space.
C12_YellowstoneScenario ==
    \A id \in Present :
        LET m      == store[id].messages
            ctx    == store[id].context
            asked  == last.id = id /\ last.arg = TextWildlife
            k      == IF Len(ctx.entities) < 5 THEN Len(ctx.entities) ELSE 5
            recent == [i \in 1..k |-> ctx.entities[Len(ctx.entities) - k + i]]
        IN (Len(m) >= 1 /\ m[1].role = "user" /\ m[1].content = TextPark)
           => /\ Len(m) = 1
                 => /\ ctx.currentTopic = "yellowstone"
                    /\ (last.op = "isFollowUpQuestion" /\ asked
                          => last.result = FALSE)
                    /\ (last.op = "enhanceQueryWithContext" /\ asked
                          => last.result = "What about wildlife?")
              /\ (Len(m) = 2 /\ m[2].role = "assistant")
                 => /\ ctx.currentTopic = "yellowstone"
                    /\ k >= 3
                    /\ (last.op = "isFollowUpQuestion" /\ asked
                          => last.result = TRUE)
                    /\ (last.op = "enhanceQueryWithContext" /\ asked
                          => last.result = "What about wildlife? yellowstone "
                                              \o Join(recent, " "))
                    /\ (last.op = "enhanceQueryWithContext" /\ asked
                        /\ m[2].content = TextMany
                          => last.result =
                               "What about wildlife? yellowstone kw17 kw18 kw19 kw20 kw21")

\* The follow-up was asked after an assistant message that brought 21
\* keywords: the topic and the 5 latest entities were appended.
C12_Witness ==
    /\ last.op = "enhanceQueryWithContext"
    /\ last.arg = TextWildlife
    /\ last.id \in Present
    /\ Len(store[last.id].messages) = 2
    /\ store[last.id].messages[1].role = "user"
    /\ store[last.id].messages[1].content = TextPark
    /\ store[last.id].messages[2].role = "assistant"
    /\ Len(store[last.id].context.entities) = 20
    /\ last.result = "What about wildlife? yellowstone kw17 kw18 kw19 kw20 kw21"

\* C13: getContextForAI returns the empty string for a conversation that
\* holds no message, an id never seen before included, whatever maxMessages.
C13_NoMessagesNoContext ==
    (last.op = "getContextForAI" /\ store[last.id].messages = <<>>)
    => last.result = ""

\* The id was not in the map when the context was asked for, while another
\* conversation held messages; the call left an empty record behind.
C13_Witness ==
    /\ last.op = "getContextForAI"
    /\ last.arg = DEFAULT_MAX_MESSAGES
    /\ store[last.id].messages = <<>>
    /\ store[last.id].createdAt = now
    /\ \E other \in Present \ {last.id} : Len(store[other].messages) = 2
    /\ last.result = ""

\* C14: createConversation on an id that is in the map replaces its record:
\* the record under the id has no message, no entity, no topic, and
\* createdAt and updatedAt of the instant of the call; no record of the map
\* holds a message of the history that was replaced.
C14_CreateReplaces ==
    last.op = "createConversation"
    => /\ last.id \in Present
       /\ store[last.id] = last.result
       /\ store[last.id].id = last.id
       /\ store[last.id].messages = <<>>
       /\ store[last.id].context.entities = <<>>
       /\ store[last.id].context.currentTopic = Undefined
       /\ store[last.id].createdAt = now
       /\ store[last.id].updatedAt = now
       /\ log[last.id] = <<>>
       /\ \A i \in 1..Len(last.arg), id \in Present :
             \A j \in 1..Len(last.arg[i].messages), k \in 1..Len(store[id].messages) :
                 store[id].messages[k].id # last.arg[i].messages[j].id

\* The record that was replaced was older than the call and had messages, a
\* topic and entities.
C14_Witness ==
    /\ last.op = "createConversation"
    /\ Len(last.arg) = 1
    /\ Len(last.arg[1].messages) > 0
    /\ Len(last.arg[1].context.entities) > 0
    /\ last.arg[1].context.currentTopic # Undefined
    /\ last.arg[1].createdAt < now
    /\ store[last.id].messages = <<>>

\* C15: for a conversation that holds at least 2 messages,
\* isFollowUpQuestion is true exactly when the query, in lower case,
\* contains one of the 18 indicator phrases anywhere, inside a word too
\* ("android" contains "and"); two queries that differ in letter case only
\* get the same answer.
C15_FollowUpIsSubstringTest ==
    /\ Len(followUpIndicators) = 18
    /\ (last.op = "isFollowUpQuestion"
          /\ last.id \in Present
          /\ Len(store[last.id].messages) >= 2)
       => LET lower == LowerOf[last.arg]
          IN /\ last.result =
                   (\E i \in 1..18, a \in 1..Len(lower) :
                       LET b == a + Len(followUpIndicators[i]) - 1
                       IN /\ b <= Len(lower)
                          /\ SubSeq(lower, a, b) = followUpIndicators[i])
             /\ last.result = (last.arg \in {TextWildlife, TextShouting,
                                             TextAndroid, TextIndicators})
    /\ \A id \in Present, q1 \in Queries, q2 \in Queries :
          (Len(store[id].messages) >= 2 /\ LowerOf[q1] = LowerOf[q2])
          => isFollowUpQuestion(store, id, q1) = isFollowUpQuestion(store, id, q2)

\* "Android phones" asked of a conversation with two messages is a
\* follow-up: it has "and" in it once lower-cased.
C15_Witness ==
    /\ last.op = "isFollowUpQuestion"
    /\ last.arg = TextAndroid
    /\ last.id \in Present
    /\ Len(store[last.id].messages) >= 2
    /\ last.result = TRUE
    /\ LowerOf[TextShouting] = LowerOf[TextWildlife]
    /\ TextShouting # TextWildlife

\* C16: when the query is a follow-up, enhanceQueryWithContext returns the
\* query, then one space and the topic if a topic is set, then, if there are
\* entities, the latest min(5, n) of them in stored order, each after one
\* space; the query starts the result and nothing else is added.
C16_EnhancedQueryShape ==
    (last.op = "enhanceQueryWithContext"
        /\ isFollowUpQuestion(store, last.id, last.arg))
    => LET ctx   == store[last.id].context
           n     == Len(ctx.entities)
           k     == IF n < 5 THEN n ELSE 5
           topic == IF ctx.currentTopic \in {Undefined, ""} THEN ""
                    ELSE " " \o ctx.currentTopic
           ents  == [i \in 1..k |-> " " \o ctx.entities[n - k + i]]
           Cat[i \in 0..k] == IF i = 0 THEN "" ELSE Cat[i - 1] \o ents[i]
       IN /\ last.result = last.arg \o topic \o Cat[k]
          /\ SubSeq(last.result, 1, Len(last.arg)) = last.arg

\* The record has a topic and 20 entities, the latest of them from another
\* message than the topic: 5 of the 20 went into the result.
C16_Witness ==
    /\ last.op = "enhanceQueryWithContext"
    /\ last.arg = TextIndicators
    /\ isFollowUpQuestion(store, last.id, last.arg)
    /\ Len(store[last.id].context.entities) = 20
    /\ store[last.id].context.currentTopic = "kw01"
    /\ last.result = "and also them kw01 kw19 kw20 kw21 yellowstone geysers"

\* C17: for a conversation with n >= 1 messages and maxMessages >= 0,
\* getContextForAI has, after the header line, one line for each of the
\* latest min(maxMessages, n) messages and for no other, in stored order,
\* "User: " before a user's content and "Assistant: " before any other; with
\* maxMessages = 0 there is no message line (the result is empty or has the
\* header and the topic and entity lines only).
C17_ContextHasLatestMessages ==
    (last.op = "getContextForAI" /\ Len(store[last.id].messages) >= 1)
    => LET conv    == store[last.id]
           n       == Len(conv.messages)
           k       == IF last.arg < n THEN last.arg ELSE n
           line    == [i \in 1..k |->
                         LET msg == conv.messages[n - k + i]
                         IN (IF msg.role = "user" THEN "User: "
                             ELSE "Assistant: ") \o msg.content \o "\n"]
           Cat[i \in 0..k] == IF i = 0 THEN "" ELSE Cat[i - 1] \o line[i]
           trailer == (IF conv.context.currentTopic = Undefined THEN ""
                       ELSE "\nCurrent Topic: " \o conv.context.currentTopic
                            \o "\n")
                      \o (IF conv.context.entities = <<>> THEN ""
                          ELSE "Referenced Entities: "
                               \o Join(conv.context.entities, ", ") \o "\n")
           block   == "\n\nConversation History:\n" \o Cat[k] \o trailer
       IN IF k = 0 THEN last.result \in {"", block}
          ELSE last.result = block

\* The characters of a text as the keywords are read from them: a capital
\* as its small letter, a character that is neither a letter, a digit, an
\* underscore nor white space as a space, white space as a space.
NormalisedChars(text) ==
    [i \in 1..Len(text) |->
        LET c == SubSeq(text, i, i)
        IN IF \E u \in 1..26 : UpperCase[u] = c
           THEN LowerCase[CHOOSE u \in 1..26 : UpperCase[u] = c]
           ELSE IF \/ \E u \in 1..26 : LowerCase[u] = c
                   \/ c \in Digits
                   \/ c = "_"
           THEN c
           ELSE " "]

\* The tokens of normalised characters N: each longest run without a space,
\* as the pair of its position and its characters.
TokensIn(N) ==
    LET n        == Len(N)
        starts   == {a \in 1..n : N[a] # " " /\ (a = 1 \/ N[a - 1] = " ")}
        EndOf(a) == CHOOSE b \in a..n :
                        /\ \A i \in a..b : N[i] # " "
                        /\ (b = n \/ N[b + 1] = " ")
        Word(a)  == LET W[i \in (a - 1)..EndOf(a)] ==
                            IF i < a THEN "" ELSE W[i - 1] \o N[i]
                    IN W[EndOf(a)]
    IN {<<a, Word(a)>> : a \in starts}

\* The tokens of the texts of SpecText, evaluated once
KeywordTokens == [text \in KeywordTexts |-> TokensIn(NormalisedChars(text))]

\* C18: the keywords of a text are the tokens of the text, lower-cased and
\* with every character that is neither a word character nor white space
\* turned into a space, that are longer than 3 characters and are no stop
\* word: each of them once, in the order of their first occurrence.  For
\* "What is the difference between supervised and unsupervised learning?"
\* they include difference, supervised, unsupervised and learning, and not
\* what, the, and, is.  (Read off the entities of a record after its first
\* message: they are the keywords of that message.)
C18_KeywordsAreTheLongTokens ==
    (last.op = "addMessage" /\ Len(store[last.id].messages) = 1)
    => LET text == last.result.content
           K    == store[last.id].context.entities
           Kept == {t \in KeywordTokens[text] :
                       Len(t[2]) > 3 /\ t[2] \notin commonWords}
           First(w) == CHOOSE a \in {t[1] : t \in Kept} :
                          /\ <<a, w>> \in Kept
                          /\ \A t \in Kept : t[2] = w => a <= t[1]
       IN /\ \A i \in 1..Len(K) : \E t \in Kept : t[2] = K[i]
          /\ \A t \in Kept : \E i \in 1..Len(K) : K[i] = t[2]
          /\ \A i, j \in 1..Len(K) : i < j => First(K[i]) < First(K[j])
          /\ text = TextLearning
             => /\ {"difference", "supervised", "unsupervised", "learning"}
                      \subseteq {K[i] : i \in 1..Len(K)}
                /\ {"what", "the", "and", "is"} \cap {K[i] : i \in 1..Len(K)} = {}
          /\ text = TextRangers => K = <<"park", "rangers">>
          /\ text = TextMixed => K = <<"snake_case", "e2e4">>

\* The first message of a record was the text with repeated words in
\* capitals and punctuation: two keywords came of its five tokens.
C18_Witness ==
    /\ last.op = "addMessage"
    /\ last.result.content = TextRangers
    /\ Len(store[last.id].messages) = 1
    /\ store[last.id].context.entities = <<"park", "rangers">>
    /\ \E other \in Present \ {last.id} :
          /\ store[other].messages[1].content = TextLearning
          /\ store[other].context.entities =
                <<"difference", "between", "supervised", "unsupervised",
                  "learning">>

\* C19: after addMessage with role user, the topic is the first keyword of
\* the content, and there is no topic when the content has no keyword, even
\* if there was one before the call.
C19_UserMessageSetsTopic ==
    (last.op = "addMessage" /\ last.result.role = "user")
    => LET topic == store[last.id].context.currentTopic
           text  == last.result.content
       IN /\ text = TextPark => topic = "yellowstone"
          /\ text = TextMany => topic = "kw01"
          /\ text = TextHi   => topic = Undefined
          /\ topic = IF KeywordsOf[text] = <<>> THEN Undefined
                     ELSE KeywordsOf[text][1]

\* "Hi" came from the user after a message that had set the topic: the
\* topic is gone, the entities are still there.
C19_Witness ==
    /\ last.op = "addMessage"
    /\ last.result.role = "user"
    /\ last.result.content = TextHi
    /\ Len(log[last.id]) = 2
    /\ log[last.id][1].role = "user"
    /\ log[last.id][1].content = TextPark
    /\ store[last.id].context.currentTopic = Undefined
    /\ store[last.id].context.entities = <<"yellowstone", "national", "park">>

\* C20: addMessage with role assistant or system leaves the topic as it was
\* (none on a new record); the message is appended and its keywords that
\* were not among the entities are added after them (the oldest entities
\* past 20 going, as after any message).
C20_OtherRolesKeepTopic ==
    [][(last'.op = "addMessage" /\ last'.result.role \in {"assistant", "system"})
        => LET id   == last'.id
               old  == IF id \in Present THEN store[id]
                       ELSE [messages |-> <<>>,
                             context  |-> [currentTopic |-> Undefined,
                                           entities     |-> <<>>]]
               new  == store'[id]
               kw   == KeywordsOf[last'.result.content]
               all  == old.context.entities
                       \o SelectSeq(kw, LAMBDA w :
                             \A i \in 1..Len(old.context.entities) :
                                 old.context.entities[i] # w)
               drop == IF Len(all) > 20 THEN Len(all) - 20 ELSE 0
           IN /\ new.context.currentTopic = old.context.currentTopic
              /\ new.messages = old.messages \o <<last'.result>>
              /\ new.context.entities = SubSeq(all, drop + 1, Len(all))
              /\ (Len(all) <= 20
                    => \A i \in 1..Len(kw) :
                          \E j \in 1..Len(new.context.entities) :
                              new.context.entities[j] = kw[i])]_vars

\* An assistant message with 21 keywords followed the user's: the topic is
\* still the user's, the history has both, the entities end with the
\* assistant's keywords.
C20_Witness ==
    /\ last.op = "addMessage"
    /\ last.result.role = "assistant"
    /\ last.result.content = TextMany
    /\ store[last.id].messages = <<log[last.id][1], last.result>>
    /\ log[last.id][1].role = "user"
    /\ log[last.id][1].content = TextPark
    /\ store[last.id].context.currentTopic = "yellowstone"
    /\ store[last.id].context.entities[20] = "kw21"
    /\ store[last.id].context.entities[1] = "kw02"

\* C21: the entities of a conversation hold no keyword twice; an addMessage
\* puts after them the keywords of its message that they do not hold yet,
\* in the order of the message, and then keeps the last 20; a keyword they
\* hold already stays where it is.
C21_EntitiesGrowByNewKeywords ==
    [][last'.op = "addMessage"
        => LET id    == last'.id
               old   == IF id \in Present THEN store[id].context.entities
                        ELSE <<>>
               new   == store'[id].context.entities
               kw    == KeywordsOf[last'.result.content]
               fresh == SelectSeq(kw, LAMBDA w :
                            \A i \in 1..Len(old) : old[i] # w)
               all   == old \o fresh
               drop  == IF Len(all) > 20 THEN Len(all) - 20 ELSE 0
           IN /\ new = [i \in 1..(Len(all) - drop) |-> all[drop + i]]
              /\ \A i, j \in 1..Len(new) : new[i] = new[j] => i = j
              /\ \A i \in 1..Len(old) :
                    i > drop => new[i - drop] = old[i]]_vars

\* "Yellowstone geysers" came after "Tell me about Yellowstone National
\* Park": yellowstone is still the first entity, geysers is the new last.
C21_Witness ==
    /\ last.op = "addMessage"
    /\ last.result.content = TextGeysers
    /\ Len(log[last.id]) = 2
    /\ log[last.id][1].content = TextPark
    /\ KeywordsOf[TextGeysers] = <<"yellowstone", "geysers">>
    /\ store[last.id].context.entities
          = <<"yellowstone", "national", "park", "geysers">>

\* The names of the calls a handler has made, in order
CallNames(h) == [i \in 1..Len(req[h].calls) |-> req[h].calls[i][1]]

\* C22 as claimed: every POST that found results and answered 200 made its
\* calls in this order: addMessage(user, raw query), enhanceQueryWithContext,
\* the search with the enhanced query, getContextForAI, the generation with
\* the original query, addMessage(assistant, answer).
C22_CallsInOrder ==
    \A h \in Handlers :
        (req[h].pc = "done" /\ req[h].status = 200 /\ req[h].searchResults > 0)
        => /\ CallNames(h) = <<"addMessage", "enhanceQueryWithContext",
                               "search", "getContextForAI",
                               "generateResponse", "addMessage">>
           /\ req[h].calls[1] = <<"addMessage", "user", req[h].query>>
           /\ req[h].calls[3][2] = req[h].enhancedQuery
           /\ req[h].calls[5][2] = req[h].query
           /\ req[h].calls[6][2] = "assistant"

\* C22, amended: a POST that found results and answered 200 with
\* useConversationContext true (the default) made exactly the six calls in
\* the claimed order; with useConversationContext false it made neither
\* enhanceQueryWithContext nor getContextForAI: addMessage(user, raw query),
\* the search with the raw query, the generation with the original query,
\* addMessage(assistant, answer).  In both cases a request that is still at
\* its search or its generation has made a beginning of that sequence only,
\* so the assistant message is never appended before the generation returns.
C22_CallsInOrderByOption ==
    \A h \in Handlers :
        LET r     == req[h]
            full  == IF r.useConversationContext
                     THEN <<"addMessage", "enhanceQueryWithContext", "search",
                            "getContextForAI", "generateResponse", "addMessage">>
                     ELSE <<"addMessage", "search", "generateResponse",
                            "addMessage">>
            upTo  == IF r.pc = "search"
                     THEN (IF r.useConversationContext THEN 3 ELSE 2)
                     ELSE IF r.pc = "generate"
                     THEN (IF r.useConversationContext THEN 5 ELSE 3)
                     ELSE Len(full)
            names == CallNames(h)
        IN /\ (r.pc \in {"search", "generate"}
                 \/ (r.pc = "done" /\ r.status = 200 /\ r.searchResults > 0))
              => /\ names = SubSeq(full, 1, upTo)
                 /\ r.calls[1] = <<"addMessage", "user", r.query>>
                 /\ \A i \in 1..Len(names) :
                       /\ names[i] = "search"
                          => r.calls[i] = <<"search", r.enhancedQuery>>
                       /\ names[i] = "generateResponse"
                          => r.calls[i] = <<"generateResponse", r.query>>
                       /\ (names[i] = "addMessage" /\ i > 1)
                          => r.calls[i][2] = "assistant" /\ r.pc = "done"
           /\ (r.pc \in {"search", "generate"} /\ ~r.useConversationContext)
              => r.enhancedQuery = r.query

\* Two requests found results and were answered: one with the
\* conversation's context, six calls, its search made with the query that
\* the manager returned; one without, four calls.
C22_Witness ==
    \E h1 \in Handlers, h2 \in Handlers :
        /\ req[h1].pc = "done" /\ req[h1].status = 200
        /\ req[h1].searchResults > 0
        /\ req[h1].useConversationContext
        /\ Len(req[h1].calls) = 6
        /\ req[h1].calls[3] = <<"search", req[h1].enhancedQuery>>
        /\ req[h2].pc = "done" /\ req[h2].status = 200
        /\ req[h2].searchResults > 0
        /\ ~req[h2].useConversationContext
        /\ Len(req[h2].calls) = 4

\* C23: while a record is in the map, its createdAt stays what its creation
\* set; every addMessage on its id sets its updatedAt to the instant of the
\* call and no other operation changes it; createdAt is never later than
\* updatedAt (the clock does not run backwards).
C23_Timestamps ==
    [][/\ \A id \in Present \cap DOMAIN store' :
             IF last'.op = "createConversation" /\ last'.id = id
             THEN store'[id].createdAt = now /\ store'[id].updatedAt = now
             ELSE /\ store'[id].createdAt = store[id].createdAt
                  /\ store'[id].updatedAt =
                        IF last'.op = "addMessage" /\ last'.id = id
                        THEN now ELSE store[id].updatedAt
       /\ \A id \in DOMAIN store' \ Present :
             store'[id].createdAt = now /\ store'[id].updatedAt = now
       /\ \A id \in DOMAIN store' :
             /\ store'[id].createdAt <= store'[id].updatedAt
             /\ store'[id].updatedAt <= now'
      ]_vars

\* A message went onto a record made at an earlier instant: createdAt is
\* that instant, updatedAt is now.
C23_Witness ==
    /\ last.op = "addMessage"
    /\ store[last.id].createdAt < now
    /\ store[last.id].updatedAt = now
    /\ Len(store[last.id].messages) = 2
    /\ store[last.id].messages[1].timestamp = store[last.id].createdAt

\* C24: a message that is in a conversation is, field for field, a message
\* that was appended to it; a step takes a message out of a conversation
\* only as the oldest one, when an append on a full history trims it, or
\* with the whole conversation (the sweep, or createConversation on its id);
\* the other messages stay as they are and where they are.
C24_MessagesAreNeverEdited ==
    [][/\ \A id \in Present :
             LET old == store[id].messages
             IN IF id \notin DOMAIN store'
                THEN last'.op = "clearOldConversations"
                ELSE IF last'.op = "createConversation" /\ last'.id = id
                THEN store'[id].messages = <<>>
                ELSE LET new == store'[id].messages
                     IN \E d \in {0, 1}, a \in {0, 1} :
                           /\ Len(new) = Len(old) - d + a
                           /\ \A i \in 1..(Len(old) - d) : new[i] = old[i + d]
                           /\ d = 1 => a = 1 /\ Len(old) = MAX_HISTORY * 2
                           /\ a = 1 => /\ nextMsg' = nextMsg + 1
                                       /\ new[Len(new)].id = <<now, nextMsg'>>
       /\ \A id \in DOMAIN store' :
             \A i \in 1..Len(store'[id].messages) :
                 \E j \in 1..Len(log'[id]) :
                     log'[id][j] = store'[id].messages[i]
      ]_vars

\* An answer with its metadata is in the middle of a full history: appends
\* after it have trimmed older messages away and left it as it was.
C24_Witness ==
    /\ "c1" \in Present
    /\ Len(store["c1"].messages) = MAX_HISTORY * 2
    /\ Len(log["c1"]) >= MAX_HISTORY * 2 + 3
    /\ \E k \in 1..(MAX_HISTORY * 2 - 1) :
          LET msg == store["c1"].messages[k]
          IN /\ msg.role = "assistant"
             /\ msg.content = TextAnswer
             /\ Len(msg.metadata) = 1
             /\ msg.metadata[1].searchResults = 2
             /\ msg = log["c1"][Len(log["c1"]) - MAX_HISTORY * 2 + k]

\* The map with every entry but id's left out
OnlyRecord(st, id) == [k \in DOMAIN st \cap {id} |-> st[k]]

\* C25: createConversation, getConversation, addMessage, isFollowUpQuestion,
\* enhanceQueryWithContext and getContextForAI on id A leave every other id
\* B as it is: in the map or not, and with the same record; what they
\* return, and what they make of A's record, is what they would return and
\* make if A's record were the only one in the map.
C25_OtherIdsUntouched ==
    [][last'.op \in {"createConversation", "getConversation", "addMessage",
                     "isFollowUpQuestion", "enhanceQueryWithContext",
                     "getContextForAI"}
        => LET A     == last'.id
               alone == OnlyRecord(store, A)
           IN /\ \A B \in ConvIds \ {A} :
                    /\ B \in DOMAIN store' <=> B \in Present
                    /\ B \in Present => store'[B] = store[B]
              /\ last'.op = "createConversation"
                 => /\ last'.result = NewConversation(A, now)
                    /\ store'[A] = last'.result
              /\ last'.op = "getConversation"
                 => /\ last'.result = getConversation(alone, A, now)[A]
                    /\ store'[A] = last'.result
              /\ last'.op = "addMessage"
                 => store'[A] = addMessage(alone, A, last'.result, now)[A]
              /\ last'.op = "isFollowUpQuestion"
                 => /\ last'.result = isFollowUpQuestion(alone, A, last'.arg)
                    /\ OnlyRecord(store', A) = alone
              /\ last'.op = "enhanceQueryWithContext"
                 => /\ last'.result =
                         EnhancedQuery(getConversation(alone, A, now), A, last'.arg)
                    /\ store'[A] = getConversation(alone, A, now)[A]
              /\ last'.op = "getContextForAI"
                 => /\ last'.result =
                         ContextForAI(getConversation(alone, A, now), A, last'.arg)
                    /\ store'[A] = getConversation(alone, A, now)[A]]_vars

\* The context of one conversation was asked for while the other held 20
\* entities of its own: none of them is in the result, and the other
\* record is as its message left it.
C25_Witness ==
    /\ last.op = "getContextForAI"
    /\ last.result = "\n\nConversation History:\nUser: Tell me about Yellowstone National Park\n\nCurrent Topic: yellowstone\nReferenced Entities: yellowstone, national, park\n"
    /\ \E B \in Present \ {last.id} :
          /\ Len(store[B].context.entities) = 20
          /\ store[B].messages[1].content = TextMany
          /\ store[B].updatedAt < now

\* C26: the three queries change no record that is in the map:
\* isFollowUpQuestion leaves the map as it is (an unknown id stays out of
\* it); enhanceQueryWithContext and getContextForAI leave it as it is when
\* the id is in it, updatedAt included, and put a new empty record under an
\* unknown id, which is all they ever change.
C26_QueriesDoNotWrite ==
    [][/\ last'.op = "isFollowUpQuestion" => store' = store
       /\ last'.op \in {"enhanceQueryWithContext", "getContextForAI"}
          => IF last'.id \in Present
             THEN store' = store
             ELSE /\ DOMAIN store' = Present \cup {last'.id}
                  /\ \A B \in Present : store'[B] = store[B]
                  /\ store'[last'.id] =
                        [id        |-> last'.id,
                         messages  |-> <<>>,
                         context   |-> [currentTopic |-> Undefined,
                                        entities     |-> <<>>],
                         createdAt |-> now,
                         updatedAt |-> now]]_vars

\* A follow-up was enhanced from a record last written at an earlier
\* instant: the record still says so.
C26_Witness ==
    /\ last.op = "enhanceQueryWithContext"
    /\ last.result # last.arg
    /\ last.id \in Present
    /\ Len(store[last.id].messages) = 2
    /\ store[last.id].updatedAt < now
    /\ store[last.id].updatedAt = store[last.id].messages[2].timestamp

\* C27: a handler appends the user's query before it has it enhanced, so
\* when the query is enhanced as a follow-up, the topic that follows it is
\* the first keyword of that very query, or no topic at all when the query
\* has no keyword; the topic of the user's turn before is in the result
\* only where it is one of the entities.
C27_TopicIsTheQuerysOwn ==
    [][\A h \in Handlers :
          (req[h].pc = "idle" /\ req'[h].pc = "search"
              /\ req'[h].useConversationContext)
          => LET q      == req'[h].query
                 ctx    == store'[req'[h].conversationId].context
                 kw     == KeywordsOf[q]
                 n      == Len(ctx.entities)
                 k      == IF n < 5 THEN n ELSE 5
                 Ents[i \in 0..k] ==
                     IF i = 0 THEN ""
                     ELSE Ents[i - 1] \o " " \o ctx.entities[n - k + i]
             IN /\ ctx.currentTopic = IF kw = <<>> THEN Undefined ELSE kw[1]
                /\ req'[h].enhancedQuery # q
                   => req'[h].enhancedQuery =
                         q \o (IF kw = <<>> THEN "" ELSE " " \o kw[1]) \o Ents[k]
                /\ q = TextWildlife /\ req'[h].enhancedQuery # q
                   => SubSeq(req'[h].enhancedQuery, 1, 29)
                         = "What about wildlife? wildlife"
                /\ q = TextHowAbout /\ req'[h].enhancedQuery # q
                   => req'[h].enhancedQuery = "How about it?" \o Ents[k]]_vars

\* After user turns on Yellowstone, "What about wildlife?" went to its
\* search with its own topic, wildlife, and "How about it?", which has no
\* keyword, with no topic: yellowstone is there as an entity only.
C27_Witness ==
    \E h1 \in Handlers, h2 \in Handlers :
        /\ req[h1].query = TextWildlife
        /\ req[h1].enhancedQuery
              = "What about wildlife? wildlife yellowstone national park wildlife"
        /\ req[h2].query = TextHowAbout
        /\ req[h2].enhancedQuery
              = "How about it? yellowstone national park wildlife"
        /\ log["c1"][BusyMessages].content = TextPark
        /\ log["c1"][BusyMessages].role = "user"

\* C28: the follow-up check of a request looks at how many messages the
\* conversation holds and at the words of the query, never at who wrote the
\* messages: a request whose query has an indicator is enhanced as soon as
\* its own user message is the second message or later, so two overlapping
\* requests on one id can append user, user, assistant, assistant and the
\* second is a follow-up with no assistant message stored.
C28_FollowUpIgnoresRoles ==
    [][\A h \in Handlers :
          (req[h].pc = "idle" /\ req'[h].pc = "search"
              /\ req'[h].useConversationContext)
          => LET q    == req'[h].query
                 conv == store'[req'[h].conversationId]
                 ctx  == conv.context
             IN (req'[h].enhancedQuery # q)
                   <=> /\ Len(conv.messages) >= 2
                       /\ IndicatorIn[q]
                       /\ Truthy(ctx.currentTopic) \/ Len(ctx.entities) > 0]_vars

\* Two requests on c1 overlapped: the appends went user, user, assistant,
\* assistant, and the second request, "What about wildlife?", was enhanced
\* when the conversation held the two user messages only.
C28_Witness ==
    /\ \A h \in Handlers :
          req[h].pc = "done" /\ req[h].status = 200 /\ req[h].conversationId = "c1"
    /\ Len(log["c1"]) = 4
    /\ store["c1"].messages = log["c1"]
    /\ [i \in 1..4 |-> log["c1"][i].role]
          = <<"user", "user", "assistant", "assistant">>
    /\ log["c1"][1].content = TextPark
    /\ log["c1"][2].content = TextWildlife
    /\ \E h \in Handlers :
          /\ req[h].query = TextWildlife
          /\ req[h].enhancedQuery
                = "What about wildlife? wildlife yellowstone national park wildlife"

\* C29: when the search of a request throws, the handler answers 500 and
\* leaves the store as it is: the user message it appended at the start
\* stays the last thing it did to the conversation, with no assistant reply
\* of its own, and the record's entities, topic and updatedAt are not put
\* back.
C29_FailedSearchKeepsUserMessage ==
    [][\A h \in Handlers :
          (req[h].pc = "search" /\ req'[h].pc = "done" /\ req'[h].status = 500)
          => /\ store' = store
             /\ log' = log
             /\ req'[h].calls = req[h].calls
             /\ req'[h].calls[Len(req'[h].calls)][1] = "search"
             /\ \A i \in 1..Len(req'[h].calls) :
                   ~(req'[h].calls[i][1] = "addMessage"
                        /\ req'[h].calls[i][2] = "assistant")]_vars

\* A lone request on c1 failed in its search at a later time than it
\* started: the conversation holds its user message and nothing else, with
\* the topic, the entities and the updatedAt that message gave it.
C29_Witness ==
    \E h \in Handlers :
        /\ req[h].pc = "done" /\ req[h].status = 500
        /\ req[h].conversationId = "c1" /\ req[h].query = TextPark
        /\ req[h].calls[Len(req[h].calls)][1] = "search"
        /\ now > req[h].startTime
        /\ Has(store, "c1")
        /\ Len(store["c1"].messages) = 1
        /\ store["c1"].messages[1].role = "user"
        /\ store["c1"].messages[1].content = TextPark
        /\ store["c1"].context.currentTopic = "yellowstone"
        /\ store["c1"].context.entities = <<"yellowstone", "national", "park">>
        /\ store["c1"].updatedAt = req[h].startTime

====
